---- MODULE Spec2Model ----
(***************************************************************************)
(* The C bindings of the synchronization engine (c-bindings/c_bindings.go   *)
(* and its C helper): libst_run_syncthing, libst_stop_syncthing,            *)
(* libst_reset_database and libst_own_device_id, called by host threads     *)
(* that share the package globals theApp and myID, the process environment, *)
(* the named locations and the filesystem.                                  *)
(*                                                                          *)
(* Every read and every write of theApp is a step of its own, so the        *)
(* interleavings of its unsynchronised accesses are behaviours of the       *)
(* model.  An argument of libst_run_syncthing is bound at the step that *)
(* first reads it: arguments are private to the call and never change, so   *)
(* this gives the same behaviours as binding them at the call.  The flags   *)
(* verbose, allowNewerConfig and noDefaultConfig are only handed on to the  *)
(* engine, whose outcome is a free choice here.                             *)
(***************************************************************************)
EXTENDS Integers, Sequences, FiniteSets, TLC

\* ------------------------------------------------------------------ bounds
NumThreads == 2
\* Instances that exist at once, and calls of libst_run_syncthing admitted.
MaxApps == 2
MaxRuns == 2
\* Calls of libst_init_logging.
MaxHandlers == 2

Threads == 1..NumThreads

\* ------------------------------------------------------------- exit codes
RcAlreadyRunning == 0
RcCertError == 1
RcConfigError == 2
RcPathError == 3
RcDirError == 4

ExitSuccess == 0
ExitError == 1
ExitRestart == 3

\* Exit statuses with which the running engine stops on its own.
FaultCodes == {ExitRestart}

\* -------------------------------------------------------------------- paths
\* A path string: whether it is rooted, and its elements.
Path(abs, segs) == [abs |-> abs, segs |-> segs]

EmptyStr == Path(FALSE, <<>>)
Cwd == Path(TRUE, <<"w">>)
DefaultDir == Path(TRUE, <<"home", "syncthing">>)
RelArg == Path(FALSE, <<".", "c">>)
AbsArg == Path(TRUE, <<"w", "c">>)

\* The directory overrides a caller passes: none, a relative one, a rooted one.
DirArgs == {EmptyStr, RelArg, AbsArg}
GuiAddressArgs == {"", "addr"}
GuiApiKeyArgs == {"", "key"}

IsAbs(p) == p.abs

RECURSIVE DropDots(_)
DropDots(segs) ==
    IF segs = <<>> THEN <<>>
    ELSE IF Head(segs) = "." THEN DropDots(Tail(segs))
    ELSE <<Head(segs)>> \o DropDots(Tail(segs))

Clean(p) == Path(p.abs, DropDots(p.segs))

\* filepath.Abs: a rooted path cleaned, any other joined to the working directory.
Abs(p) == IF IsAbs(p) THEN Clean(p) ELSE Clean(Path(TRUE, Cwd.segs \o p.segs))

Dirs == {DefaultDir, Abs(RelArg)}

\* ------------------------------------------------------------- permissions
NoDir == 0 - 1
ModePermMask == 7 * 64 + 7 * 8 + 7
RequiredMode == 7 * 64
ForeignMode == 7 * 64 + 5 * 8 + 5

\* fi.Mode() & 0777
PermBits(m) == m % (ModePermMask + 1)

\* The process umask, which mkdir applies to the mode asked for: 022 or 0222.
Umasks == {2 * 8 + 2, 2 * 64 + 2 * 8 + 2}

\* a &^ b on permission bits
RECURSIVE AndNot(_, _)
AndNot(a, b) ==
    IF a = 0 THEN 0
    ELSE (IF a % 2 = 1 /\ b % 2 = 0 THEN 1 ELSE 0) + 2 * AndNot(a \div 2, b \div 2)

\* -------------------------------------------------------------------- state
NoApp == 0
EmptyDeviceID == 0

\* libst_logging_callback_function = NULL, and the functions a host registers.
NullCallback == 0
Callbacks == {1}

\* Log levels of the engine's logger, and messages as Go strings (bytes): the
\* empty one, an ASCII one and one made of a two-byte rune.
LogLevels == {0, 3}
Messages == {<<>>, <<104, 105>>, <<195, 164>>}
NoEvent == [level |-> 0, msg |-> <<>>, size |-> 0]

VARIABLES
    theApp,      \* the global instance pointer: NoApp or an index of apps
    myID,        \* the global device id
    apps,        \* the engine instances, by slot
    env,         \* the process environment
    baseDirs,    \* locations: the base directory of each role
    dirs,        \* filesystem: the permission bits of each directory, or NoDir
    dbs,         \* filesystem: the data directories that hold a database
    pc,          \* where each thread is in its call
    dataDir,     \* libst_run_syncthing's local dataDir, until its last use
    returnCode,  \* libst_run_syncthing's local returnCode
    mine,        \* the instance a thread's call constructed
    recv,        \* the receiver a thread loaded for the method call it is in
    entryDirs,   \* history: baseDirs at admission, kept while the paths are handled
    result,      \* what the step just taken handed back to the host
    crashed,     \* a nil pointer dereference has ended the process
    runs,        \* the calls of libst_run_syncthing admitted so far
    handlers,    \* the handlers libst_init_logging has added to the logger
    callback,    \* libst_logging_callback_function: NullCallback or a function
    logPc,       \* where each thread is in the delivery of a log event
    logEvent,    \* the level and the message the logger handed to the handler
    loaded,      \* the function pointer the null test of the C helper loaded
    invoked,     \* history: the calls of the callback made for the delivery
    logStable    \* history: callback was not assigned to during the delivery

\* The state of the logging bridge; the lifecycle functions do not touch it.
logVars == <<handlers, callback, logPc, logEvent, loaded, invoked, logStable>>

\* The state the logging bridge does not touch.
lifeVars == <<theApp, myID, apps, env, baseDirs, dirs, dbs, pc, dataDir, returnCode,
              mine, recv, entryDirs, runs>>

vars == <<theApp, myID, apps, env, baseDirs, dirs, dbs, pc, dataDir, returnCode,
          mine, recv, entryDirs, result, crashed, runs, handlers, callback,
          logPc, logEvent, loaded, invoked, logStable>>

\* Positions of a thread inside libst_run_syncthing, in program order.
BootstrapPcs == {"setenv", "configdir", "datadir", "ensurecfg", "ensuredata",
                 "cert", "config", "db", "new"}
HandlePcs == {"start", "waitcall", "waiting", "clear"}
RunPcs == BootstrapPcs \cup HandlePcs
StopPcs == {"stopcall"}

\* What the step just taken handed back to the host: NoResult if it was no
\* return, else the thread and the operation that returned and the integer
\* returned, or the string of libst_own_device_id.
Result(t, op, value, text) == [thread |-> t, op |-> op, value |-> value, text |-> text]
NoResult == Result(0, "none", 0, "")

\* A slot of apps holds an instance from its construction until it has stopped
\* and no pointer to it is left; FreeApp marks a slot that holds none.
FreeApp == [status |-> "free", exitStatus |-> ExitSuccess]
NewApp == [status |-> "new", exitStatus |-> ExitSuccess]

InitBaseDirs == [r \in {"ConfigBaseDir", "DataBaseDir"} |-> DefaultDir]

Init ==
    /\ theApp = NoApp
    /\ myID = EmptyDeviceID
    /\ apps = [a \in 1..MaxApps |-> FreeApp]
    /\ env = [v \in {"STGUIADDRESS", "STGUIAPIKEY"} |-> ""]
    /\ baseDirs = InitBaseDirs
    /\ dirs = [d \in Dirs |-> IF d = DefaultDir THEN ForeignMode ELSE NoDir]
    /\ dbs = {}
    /\ pc = [t \in Threads |-> "idle"]
    /\ dataDir = [t \in Threads |-> EmptyStr]
    /\ returnCode = [t \in Threads |-> 0]
    /\ mine = [t \in Threads |-> NoApp]
    /\ recv = [t \in Threads |-> NoApp]
    /\ entryDirs = [t \in Threads |-> InitBaseDirs]
    /\ result = NoResult
    /\ crashed = FALSE
    /\ runs = 0
    /\ handlers = 0
    /\ callback = NullCallback
    /\ logPc = [t \in Threads |-> "idle"]
    /\ logEvent = [t \in Threads |-> NoEvent]
    /\ loaded = [t \in Threads |-> NullCallback]
    /\ invoked = [t \in Threads |-> <<>>]
    /\ logStable = [t \in Threads |-> TRUE]

\* ------------------------------------------------------------------ engine
\* syncthing.App: New, Start, Stop, Wait, and the engine's own progress.

\* The instances that exist and have not terminated.
LiveApps == {a \in 1..MaxApps : apps[a].status \notin {"free", "stopped"}}

\* Start's error: the startup failed, which stops the instance with ExitError.
StartFailed(app) == app.status = "stopped" /\ app.exitStatus = ExitError

\* Start runs the engine's startup once; a failed startup stops the instance
\* with ExitError; an instance signalled before it started shuts down at once.
AppStart(a, ok) ==
    IF apps[a].status = "new"
    THEN IF ok THEN [apps EXCEPT ![a].status = "running"]
         ELSE [apps EXCEPT ![a] = [status |-> "stopped", exitStatus |-> ExitError]]
    ELSE IF apps[a].status = "signalled"
    THEN [apps EXCEPT ![a].status = "stopping"]
    ELSE apps

\* Stop sets the exit status and signals the instance unless it was signalled
\* or has stopped before; it does not wait for the shutdown.
AppStop(a, reason) ==
    IF apps[a].status = "new"
    THEN [apps EXCEPT ![a].status = "signalled", ![a].exitStatus = reason]
    ELSE IF apps[a].status = "running"
    THEN [apps EXCEPT ![a].status = "stopping", ![a].exitStatus = reason]
    ELSE apps

\* Garbage collection: a stopped instance nothing points to is gone.
Collect(as, app, m, r) ==
    [a \in 1..MaxApps |->
        IF /\ as[a].status = "stopped"
           /\ a # app
           /\ \A t \in Threads : m[t] # a /\ r[t] # a
        THEN FreeApp ELSE as[a]]

\* A running engine stops on its own (a fault, a restart request).
AppFault(a, code) ==
    /\ ~crashed
    /\ apps[a].status = "running"
    /\ apps' = [apps EXCEPT ![a].status = "stopping", ![a].exitStatus = code]
    /\ result' = NoResult
    /\ UNCHANGED <<theApp, myID, env, baseDirs, dirs, dbs, pc, dataDir, returnCode,
                   mine, recv, entryDirs, crashed, runs>>
    /\ UNCHANGED logVars

\* A signalled engine finishes its shutdown.
AppTerminate(a) ==
    /\ ~crashed
    /\ apps[a].status = "stopping"
    /\ apps' = Collect([apps EXCEPT ![a].status = "stopped"], theApp, mine, recv)
    /\ result' = NoResult
    /\ UNCHANGED <<theApp, myID, env, baseDirs, dirs, dbs, pc, dataDir, returnCode,
                   mine, recv, entryDirs, crashed, runs>>
    /\ UNCHANGED logVars

\* protocol.DeviceID.String
DeviceIDString(id) == IF id = EmptyDeviceID THEN "" ELSE "device"

\* locations.SetBaseDir
SetBaseDir(role, path) == [baseDirs EXCEPT ![role] = Abs(path)]

\* ----------------------------------------------------------------- helpers
\* A return statement of a call of thread t: the frame is gone.
Return(t, op, value, text) ==
    /\ pc' = [pc EXCEPT ![t] = "idle"]
    /\ dataDir' = [dataDir EXCEPT ![t] = EmptyStr]
    /\ returnCode' = [returnCode EXCEPT ![t] = 0]
    /\ mine' = [mine EXCEPT ![t] = NoApp]
    /\ recv' = [recv EXCEPT ![t] = NoApp]
    /\ entryDirs' = [entryDirs EXCEPT ![t] = InitBaseDirs]
    /\ result' = Result(t, op, value, text)
    /\ UNCHANGED logVars

Goto(t, next) ==
    /\ pc' = [pc EXCEPT ![t] = next]
    /\ result' = NoResult
    /\ UNCHANGED logVars

\* A method called on a nil *syncthing.App: the process panics.
Panic ==
    /\ crashed' = TRUE
    /\ UNCHANGED runs
    /\ result' = NoResult
    /\ UNCHANGED <<theApp, myID, apps, env, baseDirs, dirs, dbs, pc, dataDir,
                   returnCode, mine, recv, entryDirs>>
    /\ UNCHANGED logVars

At(t, where) == ~crashed /\ pc[t] = where

\* ------------------------------------------------------------- ensureDir
\* MkdirAll: an existing directory is left as it is, a missing one is made
\* with the mode asked for less the bits of the umask.
MkdirAll(fs, dir, mode, umask) ==
    IF fs[dir] = NoDir THEN [fs EXCEPT ![dir] = AndNot(mode, umask)] ELSE fs

\* Mutant: ensureDir without the Chmod of a directory whose mode differs.
ensureDir_WithoutChmod(fs, dir, mode, umask, mkOk, statOk, chmodOk) ==
    IF ~mkOk THEN [err |-> TRUE, fs |-> fs, chmod |-> FALSE]
    ELSE [err |-> FALSE, fs |-> MkdirAll(fs, dir, mode, umask), chmod |-> FALSE]

\* Mutant: ensureDir returning an error when Stat fails.
ensureDir_StatFatal(fs, dir, mode, umask, mkOk, statOk, chmodOk) ==
    IF ~mkOk \/ ~statOk THEN [err |-> TRUE, fs |-> fs, chmod |-> FALSE]
    ELSE LET made == MkdirAll(fs, dir, mode, umask) IN
         IF PermBits(made[dir]) # mode
         THEN [err |-> FALSE, chmod |-> TRUE,
               fs |-> IF chmodOk THEN [made EXCEPT ![dir] = mode] ELSE made]
         ELSE [err |-> FALSE, fs |-> made, chmod |-> FALSE]

\* ensureDir(dir, mode) on the filesystem fs, given the umask and whether
\* MkdirAll, Stat and Chmod succeed: the error returned, the filesystem left
\* behind, and whether Chmod was called.
ensureDir(fs, dir, mode, umask, mkOk, statOk, chmodOk) ==
    IF ~mkOk THEN [err |-> TRUE, fs |-> fs, chmod |-> FALSE]
    ELSE LET made == MkdirAll(fs, dir, mode, umask) IN
         IF statOk /\ PermBits(made[dir]) # mode
         THEN [err |-> FALSE, chmod |-> TRUE,
               fs |-> IF chmodOk THEN [made EXCEPT ![dir] = mode] ELSE made]
         ELSE [err |-> FALSE, fs |-> made, chmod |-> FALSE]

\* ---------------------------------------------------- libst_run_syncthing
\* if theApp != nil { return 0 }
AlreadyRunning == theApp # NoApp

Run_AlreadyRunning(t) ==
    /\ At(t, "idle")
    /\ AlreadyRunning
    /\ Return(t, "run", RcAlreadyRunning, "")
    /\ UNCHANGED <<theApp, myID, apps, env, baseDirs, dirs, dbs, crashed, runs>>

Run_Admit(t) ==
    /\ At(t, "idle")
    /\ ~AlreadyRunning
    /\ runs < MaxRuns
    /\ runs' = runs + 1
    /\ Goto(t, "setenv")
    /\ entryDirs' = [entryDirs EXCEPT ![t] = baseDirs]
    /\ UNCHANGED <<theApp, myID, apps, env, baseDirs, dirs, dbs, crashed,
                   dataDir, returnCode, mine, recv>>

\* The two os.Setenv calls, both on STGUIADDRESS.
Setenv(e, name, value) == [e EXCEPT ![name] = value]

Run_Setenv(t, guiAddress, guiApiKey) ==
    /\ At(t, "setenv")
    /\ LET e1 == IF guiAddress # "" THEN Setenv(env, "STGUIADDRESS", guiAddress)
                 ELSE env
       IN  env' = IF guiApiKey # "" THEN Setenv(e1, "STGUIADDRESS", guiApiKey)
                  ELSE e1
    /\ Goto(t, "configdir")
    /\ UNCHANGED <<theApp, myID, apps, baseDirs, dirs, dbs, crashed, runs,
                   dataDir, returnCode, mine, recv, entryDirs>>

\* The override of one base directory: filepath.Abs for a relative path, then
\* locations.SetBaseDir; absOk and setOk say whether the two succeed.
Run_ConfigDir(t, configDir, absOk, setOk) ==
    /\ At(t, "configdir")
    /\ IF configDir = EmptyStr
       THEN /\ Goto(t, "datadir")
            /\ UNCHANGED <<baseDirs, dataDir, returnCode, mine, recv, entryDirs>>
       ELSE IF (~IsAbs(configDir) /\ ~absOk) \/ ~setOk
       THEN /\ Return(t, "run", RcPathError, "")
            /\ UNCHANGED baseDirs
       ELSE /\ baseDirs' = SetBaseDir("ConfigBaseDir", configDir)
            /\ Goto(t, "datadir")
            /\ UNCHANGED <<dataDir, returnCode, mine, recv, entryDirs>>
    /\ UNCHANGED <<theApp, myID, apps, env, dirs, dbs, crashed, runs>>

Run_DataDir(t, dataDirArg, absOk, setOk) ==
    /\ At(t, "datadir")
    /\ IF dataDirArg = EmptyStr
       THEN /\ Goto(t, "ensurecfg")
            /\ entryDirs' = [entryDirs EXCEPT ![t] = InitBaseDirs]
            /\ UNCHANGED <<baseDirs, dataDir, returnCode, mine, recv>>
       ELSE IF (~IsAbs(dataDirArg) /\ ~absOk) \/ ~setOk
       THEN /\ Return(t, "run", RcPathError, "")
            /\ UNCHANGED baseDirs
       ELSE /\ baseDirs' = SetBaseDir("DataBaseDir", dataDirArg)
            /\ dataDir' = [dataDir EXCEPT ![t] =
                              IF IsAbs(dataDirArg) THEN dataDirArg ELSE Abs(dataDirArg)]
            /\ Goto(t, "ensurecfg")
            /\ entryDirs' = [entryDirs EXCEPT ![t] = InitBaseDirs]
            /\ UNCHANGED <<returnCode, mine, recv>>
    /\ UNCHANGED <<theApp, myID, apps, env, dirs, dbs, crashed, runs>>

Run_EnsureConfigDir(t, ensureConfigDirExists, umask, mkOk, statOk, chmodOk) ==
    /\ At(t, "ensurecfg")
    /\ IF ensureConfigDirExists
       THEN LET r == ensureDir(dirs, baseDirs["ConfigBaseDir"], RequiredMode,
                               umask, mkOk, statOk, chmodOk)
            IN  /\ dirs' = r.fs
                /\ IF r.err
                   THEN Return(t, "run", RcDirError, "")
                   ELSE /\ Goto(t, "ensuredata")
                        /\ UNCHANGED <<dataDir, returnCode, mine, recv, entryDirs>>
       ELSE /\ Goto(t, "ensuredata")
            /\ UNCHANGED <<dirs, dataDir, returnCode, mine, recv, entryDirs>>
    /\ UNCHANGED <<theApp, myID, apps, env, baseDirs, dbs, crashed, runs>>

\* Mutant: the data directory is prepared whether or not dataDir was given.
Run_EnsureDataDir_IgnoresOverride(t, ensureDataDirExists, umask, mkOk, statOk, chmodOk) ==
    /\ At(t, "ensuredata")
    /\ IF ensureDataDirExists
       THEN LET r == ensureDir(dirs, baseDirs["DataBaseDir"], RequiredMode,
                               umask, mkOk, statOk, chmodOk)
            IN  /\ dirs' = r.fs
                /\ IF r.err
                   THEN Return(t, "run", RcDirError, "")
                   ELSE /\ Goto(t, "cert")
                        /\ dataDir' = [dataDir EXCEPT ![t] = EmptyStr]
                        /\ UNCHANGED <<returnCode, mine, recv, entryDirs>>
       ELSE /\ Goto(t, "cert")
            /\ dataDir' = [dataDir EXCEPT ![t] = EmptyStr]
            /\ UNCHANGED <<dirs, returnCode, mine, recv, entryDirs>>
    /\ UNCHANGED <<theApp, myID, apps, env, baseDirs, dbs, crashed, runs>>

Run_EnsureDataDir(t, ensureDataDirExists, umask, mkOk, statOk, chmodOk) ==
    /\ At(t, "ensuredata")
    /\ IF dataDir[t] # EmptyStr /\ ensureDataDirExists
       THEN LET r == ensureDir(dirs, baseDirs["DataBaseDir"], RequiredMode,
                               umask, mkOk, statOk, chmodOk)
            IN  /\ dirs' = r.fs
                /\ IF r.err
                   THEN Return(t, "run", RcDirError, "")
                   ELSE /\ Goto(t, "cert")
                        /\ dataDir' = [dataDir EXCEPT ![t] = EmptyStr]
                        /\ UNCHANGED <<returnCode, mine, recv, entryDirs>>
       ELSE /\ Goto(t, "cert")
            /\ dataDir' = [dataDir EXCEPT ![t] = EmptyStr]
            /\ UNCHANGED <<dirs, returnCode, mine, recv, entryDirs>>
    /\ UNCHANGED <<theApp, myID, apps, env, baseDirs, dbs, crashed, runs>>

\* Mutant: the instance pointer is published before the certificate is there,
\* and the error return leaves it set.
Run_Cert_LeavesHandle(t, ok) ==
    /\ At(t, "cert")
    /\ IF ok
       THEN /\ Goto(t, "config")
            /\ UNCHANGED <<theApp, dataDir, returnCode, mine, recv, entryDirs>>
       ELSE /\ Return(t, "run", RcCertError, "")
            /\ theApp' = 1
    /\ UNCHANGED <<myID, apps, env, baseDirs, dirs, dbs, crashed, runs>>

\* Mutant: a certificate failure is ignored and the configuration stage runs.
Run_Cert_GoesOn(t, ok) ==
    /\ At(t, "cert")
    /\ Goto(t, "config")
    /\ UNCHANGED <<dataDir, returnCode, mine, recv, entryDirs>>
    /\ UNCHANGED <<theApp, myID, apps, env, baseDirs, dirs, dbs, crashed, runs>>

\* syncthing.LoadOrGenerateCertificate
Run_Cert(t, ok) ==
    /\ At(t, "cert")
    /\ IF ok
       THEN /\ Goto(t, "config")
            /\ UNCHANGED <<dataDir, returnCode, mine, recv, entryDirs>>
       ELSE Return(t, "run", RcCertError, "")
    /\ UNCHANGED <<theApp, myID, apps, env, baseDirs, dirs, dbs, crashed, runs>>

\* Mutant: a configuration failure returns the certificate code.
Run_Config_WrongCode(t, ok) ==
    /\ At(t, "config")
    /\ IF ok
       THEN /\ Goto(t, "db")
            /\ UNCHANGED <<dataDir, returnCode, mine, recv, entryDirs>>
       ELSE Return(t, "run", RcCertError, "")
    /\ UNCHANGED <<theApp, myID, apps, env, baseDirs, dirs, dbs, crashed, runs>>

\* syncthing.LoadConfigAtStartup
Run_Config(t, ok) ==
    /\ At(t, "config")
    /\ IF ok
       THEN /\ Goto(t, "db")
            /\ UNCHANGED <<dataDir, returnCode, mine, recv, entryDirs>>
       ELSE Return(t, "run", RcConfigError, "")
    /\ UNCHANGED <<theApp, myID, apps, env, baseDirs, dirs, dbs, crashed, runs>>

\* syncthing.OpenDBBackend on locations.Get(locations.Database)
Run_OpenDB(t, ok) ==
    /\ At(t, "db")
    /\ IF ok
       THEN /\ dbs' = dbs \cup {baseDirs["DataBaseDir"]}
            /\ Goto(t, "new")
            /\ UNCHANGED <<dataDir, returnCode, mine, recv, entryDirs>>
       ELSE /\ Return(t, "run", RcDirError, "")
            /\ UNCHANGED dbs
    /\ UNCHANGED <<theApp, myID, apps, env, baseDirs, dirs, crashed, runs>>

\* theApp = syncthing.New(...)
Run_New(t) ==
    /\ At(t, "new")
    /\ \E a \in 1..MaxApps :
          /\ apps[a].status = "free"
          /\ \A b \in 1..(a - 1) : apps[b].status # "free"
          /\ theApp' = a
          /\ mine' = [mine EXCEPT ![t] = a]
          /\ apps' = Collect([apps EXCEPT ![a] = NewApp], a, mine', recv)
    /\ Goto(t, "start")
    /\ UNCHANGED <<myID, env, baseDirs, dirs, dbs, crashed, runs,
                   dataDir, returnCode, recv, entryDirs>>

\* returnCode := 0; if err := theApp.Start(); err != nil { returnCode = ExitError }
\* The receiver r is theApp as loaded now, or the value just stored into it.
Run_Start(t, r, ok) ==
    /\ At(t, "start")
    /\ r \in {mine[t], theApp}
    /\ IF r = NoApp
       THEN Panic
       ELSE /\ apps' = AppStart(r, ok)
            /\ returnCode' = [returnCode EXCEPT ![t] =
                                 IF StartFailed(apps'[r]) THEN ExitError ELSE 0]
            /\ Goto(t, "waitcall")
            /\ UNCHANGED <<theApp, myID, env, baseDirs, dirs, dbs, crashed, runs,
                           dataDir, mine, recv, entryDirs>>

\* theApp.Wait(): theApp is loaded, then Wait blocks on that instance.
Run_WaitCall(t) ==
    /\ At(t, "waitcall")
    /\ IF theApp = NoApp
       THEN Panic
       ELSE /\ recv' = [recv EXCEPT ![t] = theApp]
            /\ Goto(t, "waiting")
            /\ UNCHANGED <<theApp, myID, apps, env, baseDirs, dirs, dbs, crashed, runs,
                           dataDir, returnCode, mine, entryDirs>>

\* Mutant: Wait's exit status is dropped; the code set after Start stays.
Run_WaitReturn_DropsStatus(t) ==
    /\ At(t, "waiting")
    /\ apps[recv[t]].status = "stopped"
    /\ Goto(t, "clear")
    /\ UNCHANGED <<theApp, myID, apps, env, baseDirs, dirs, dbs, crashed, runs,
                   dataDir, returnCode, mine, recv, entryDirs>>

\* returnCode = theApp.Wait().AsInt(), once the instance has stopped
Run_WaitReturn(t) ==
    /\ At(t, "waiting")
    /\ apps[recv[t]].status = "stopped"
    /\ returnCode' = [returnCode EXCEPT ![t] = apps[recv[t]].exitStatus]
    /\ Goto(t, "clear")
    /\ UNCHANGED <<theApp, myID, apps, env, baseDirs, dirs, dbs, crashed, runs,
                   dataDir, mine, recv, entryDirs>>

\* Mutant: the call returns without clearing theApp.
Run_Clear_KeepsHandle(t) ==
    /\ At(t, "clear")
    /\ Return(t, "run", returnCode[t], "")
    /\ apps' = Collect(apps, theApp, mine', recv')
    /\ UNCHANGED <<theApp, myID, env, baseDirs, dirs, dbs, crashed, runs>>

\* theApp = nil; return returnCode
Run_Clear(t) ==
    /\ At(t, "clear")
    /\ theApp' = NoApp
    /\ Return(t, "run", returnCode[t], "")
    /\ apps' = Collect(apps, NoApp, mine', recv')
    /\ UNCHANGED <<myID, env, baseDirs, dirs, dbs, crashed, runs>>

\* The steps of a call that was admitted.
Run_Body(t) ==
    \/ \E a \in GuiAddressArgs, k \in GuiApiKeyArgs : Run_Setenv(t, a, k)
    \/ \E d \in DirArgs, absOk \in BOOLEAN, setOk \in BOOLEAN :
          Run_ConfigDir(t, d, absOk, setOk)
    \/ \E d \in DirArgs, absOk \in BOOLEAN, setOk \in BOOLEAN :
          Run_DataDir(t, d, absOk, setOk)
    \/ \E e \in BOOLEAN, umask \in Umasks,
          mkOk \in BOOLEAN, statOk \in BOOLEAN, chmodOk \in BOOLEAN :
          Run_EnsureConfigDir(t, e, umask, mkOk, statOk, chmodOk)
    \/ \E e \in BOOLEAN, umask \in Umasks,
          mkOk \in BOOLEAN, statOk \in BOOLEAN, chmodOk \in BOOLEAN :
          Run_EnsureDataDir(t, e, umask, mkOk, statOk, chmodOk)
    \/ \E ok \in BOOLEAN : Run_Cert(t, ok)
    \/ \E ok \in BOOLEAN : Run_Config(t, ok)
    \/ \E ok \in BOOLEAN : Run_OpenDB(t, ok)
    \/ Run_New(t)
    \/ \E r \in 0..MaxApps, ok \in BOOLEAN : Run_Start(t, r, ok)
    \/ Run_WaitCall(t)
    \/ Run_WaitReturn(t)
    \/ Run_Clear(t)

libst_run_syncthing(t) ==
    \/ Run_AlreadyRunning(t)
    \/ Run_Admit(t)
    \/ Run_Body(t)

\* --------------------------------------------------- libst_stop_syncthing
\* theApp == nil: return 0
Stop_Idle(t) ==
    /\ At(t, "idle")
    /\ theApp = NoApp
    /\ Return(t, "stop", 0, "")
    /\ UNCHANGED <<theApp, myID, apps, env, baseDirs, dirs, dbs, crashed, runs>>

\* theApp != nil
Stop_Check(t) ==
    /\ At(t, "idle")
    /\ theApp # NoApp
    /\ recv' = [recv EXCEPT ![t] = theApp]
    /\ Goto(t, "stopcall")
    /\ UNCHANGED <<theApp, myID, apps, env, baseDirs, dirs, dbs, crashed, runs,
                   dataDir, returnCode, mine, entryDirs>>

\* Mutant: libst_stop_syncthing clears the handle after signalling it.
Stop_Call_ClearsHandle(t, r) ==
    /\ At(t, "stopcall")
    /\ r \in {recv[t], theApp}
    /\ IF r = NoApp
       THEN Panic
       ELSE /\ Return(t, "stop", AppStop(r, ExitSuccess)[r].exitStatus, "")
            /\ theApp' = NoApp
            /\ apps' = Collect(AppStop(r, ExitSuccess), NoApp, mine', recv')
            /\ UNCHANGED <<myID, env, baseDirs, dirs, dbs, crashed, runs>>

\* return int(theApp.Stop(util.ExitSuccess)); the receiver r is theApp as
\* loaded again now, or the value the test loaded.
Stop_Call(t, r) ==
    /\ At(t, "stopcall")
    /\ r \in {recv[t], theApp}
    /\ IF r = NoApp
       THEN Panic
       ELSE /\ Return(t, "stop", AppStop(r, ExitSuccess)[r].exitStatus, "")
            /\ apps' = Collect(AppStop(r, ExitSuccess), theApp, mine', recv')
            /\ UNCHANGED <<theApp, myID, env, baseDirs, dirs, dbs, crashed, runs>>

libst_stop_syncthing(t) ==
    \/ Stop_Idle(t)
    \/ Stop_Check(t)
    \/ \E r \in 0..MaxApps : Stop_Call(t, r)

\* -------------------------------------------------- libst_reset_database
\* os.RemoveAll(locations.Get(locations.Database))
libst_reset_database(t) ==
    /\ At(t, "idle")
    /\ dbs' = dbs \ {baseDirs["DataBaseDir"]}
    /\ result' = NoResult
    /\ UNCHANGED <<theApp, myID, apps, env, baseDirs, dirs, crashed, runs, pc, dataDir,
                   returnCode, mine, recv, entryDirs>>
    /\ UNCHANGED logVars

\* --------------------------------------------------- libst_own_device_id
\* return myID.String()
OwnDeviceID == DeviceIDString(myID)

libst_own_device_id(t) ==
    /\ At(t, "idle")
    /\ Return(t, "own_device_id", 0, OwnDeviceID)
    /\ UNCHANGED <<theApp, myID, apps, env, baseDirs, dirs, dbs, crashed, runs>>

\* ---------------------------------------------------------- logging bridge
\* libst_init_logging: l.AddHandler(logger.LevelVerbose, ...) adds one more
\* handler; the logger calls every handler it has for every event.
libst_init_logging(t) ==
    /\ ~crashed
    /\ logPc[t] = "idle"
    /\ handlers < MaxHandlers
    /\ handlers' = handlers + 1
    /\ result' = NoResult
    /\ UNCHANGED <<callback, logPc, logEvent, loaded, invoked, logStable>>
    /\ UNCHANGED <<lifeVars, crashed>>

\* The host assigns libst_logging_callback_function, at any time.
RegisterCallback(f) ==
    /\ ~crashed
    /\ f # callback
    /\ callback' = f
    /\ logStable' = [t \in Threads |-> logStable[t] /\ logPc[t] = "idle"]
    /\ result' = NoResult
    /\ UNCHANGED <<handlers, logPc, logEvent, loaded, invoked>>
    /\ UNCHANGED <<lifeVars, crashed>>

\* The logger calls an installed handler with an event of thread t.
Log_Event(t, level, msg) ==
    /\ ~crashed
    /\ logPc[t] = "idle"
    /\ handlers > 0
    /\ logPc' = [logPc EXCEPT ![t] = "handler"]
    /\ logEvent' = [logEvent EXCEPT ![t] = [level |-> level, msg |-> msg, size |-> 0]]
    /\ invoked' = [invoked EXCEPT ![t] = <<>>]
    /\ logStable' = [logStable EXCEPT ![t] = TRUE]
    /\ result' = NoResult
    /\ UNCHANGED <<handlers, callback, loaded>>
    /\ UNCHANGED <<lifeVars, crashed>>

\* Mutant: the handler forwards an empty message too.
Log_Handler_ForwardsEmpty(t) ==
    /\ ~crashed
    /\ logPc[t] = "handler"
    /\ LET length == Len(logEvent[t].msg)
       IN  /\ logPc' = [logPc EXCEPT ![t] = "test"]
           /\ logEvent' = [logEvent EXCEPT ![t].size = length]
    /\ result' = NoResult
    /\ UNCHANGED <<handlers, callback, loaded, invoked, logStable>>
    /\ UNCHANGED <<lifeVars, crashed>>

\* The handler: runes := []byte(msg); length := len(runes); if length <= 0
\* { return }; C.libst_invoke_logging_callback(level, &runes[0], len(runes))
Log_Handler(t) ==
    /\ ~crashed
    /\ logPc[t] = "handler"
    /\ LET length == Len(logEvent[t].msg)
       IN  IF length <= 0
           THEN /\ logPc' = [logPc EXCEPT ![t] = "done"]
                /\ UNCHANGED logEvent
           ELSE /\ logPc' = [logPc EXCEPT ![t] = "test"]
                /\ logEvent' = [logEvent EXCEPT ![t].size = length]
    /\ result' = NoResult
    /\ UNCHANGED <<handlers, callback, loaded, invoked, logStable>>
    /\ UNCHANGED <<lifeVars, crashed>>

\* libst_invoke_logging_callback: if (!libst_logging_callback_function) return;
Invoke_Test(t) ==
    /\ ~crashed
    /\ logPc[t] = "test"
    /\ IF callback = NullCallback
       THEN /\ logPc' = [logPc EXCEPT ![t] = "done"]
            /\ UNCHANGED loaded
       ELSE /\ logPc' = [logPc EXCEPT ![t] = "call"]
            /\ loaded' = [loaded EXCEPT ![t] = callback]
    /\ result' = NoResult
    /\ UNCHANGED <<handlers, callback, logEvent, invoked, logStable>>
    /\ UNCHANGED <<lifeVars, crashed>>

\* libst_logging_callback_function(log_level, message, message_size); the
\* function f called is the pointer as loaded again now, or as the test
\* loaded it.  A call through NULL ends the process.
Invoke_Call(t, f) ==
    /\ ~crashed
    /\ logPc[t] = "call"
    /\ f \in {loaded[t], callback}
    /\ IF f = NullCallback
       THEN /\ crashed' = TRUE
            /\ UNCHANGED <<logPc, invoked>>
       ELSE /\ invoked' = [invoked EXCEPT ![t] =
                              Append(@, [fn |-> f, level |-> logEvent[t].level,
                                         size |-> logEvent[t].size])]
            /\ logPc' = [logPc EXCEPT ![t] = "done"]
            /\ UNCHANGED crashed
    /\ result' = NoResult
    /\ UNCHANGED <<handlers, callback, logEvent, loaded, logStable>>
    /\ UNCHANGED lifeVars

\* The handler returns to the logger.
Log_Return(t) ==
    /\ ~crashed
    /\ logPc[t] = "done"
    /\ logPc' = [logPc EXCEPT ![t] = "idle"]
    /\ logEvent' = [logEvent EXCEPT ![t] = NoEvent]
    /\ loaded' = [loaded EXCEPT ![t] = NullCallback]
    /\ invoked' = [invoked EXCEPT ![t] = <<>>]
    /\ logStable' = [logStable EXCEPT ![t] = TRUE]
    /\ result' = NoResult
    /\ UNCHANGED <<handlers, callback>>
    /\ UNCHANGED <<lifeVars, crashed>>

\* ------------------------------------------------------- specifications
Engine ==
    \/ \E a \in 1..MaxApps, code \in FaultCodes : AppFault(a, code)
    \/ \E a \in 1..MaxApps : AppTerminate(a)

Next ==
    \/ \E t \in Threads : libst_run_syncthing(t)
    \/ \E t \in Threads : libst_stop_syncthing(t)
    \/ \E t \in Threads : libst_reset_database(t)
    \/ \E t \in Threads : libst_own_device_id(t)
    \/ Engine

Spec == Init /\ [][Next]_vars

\* The host of the scheduling model: it calls libst_run_syncthing from one
\* thread, which blocks until the instance has stopped, and the other
\* operations from its other threads at any time.  No call of
\* libst_run_syncthing is made while another is in progress, so none finds
\* theApp set.
RunThread == CHOOSE t \in Threads : \A u \in Threads : t <= u
ControlThreads == Threads \ {RunThread}

HostNext ==
    \/ Run_Admit(RunThread)
    \/ Run_Body(RunThread)
    \/ \E t \in ControlThreads : libst_stop_syncthing(t)
    \/ \E t \in ControlThreads : libst_reset_database(t)
    \/ \E t \in ControlThreads : libst_own_device_id(t)
    \/ Engine

HostSpec == Init /\ [][HostNext]_vars

\* The scheduler runs the thread blocked in libst_run_syncthing whenever it can
\* take a step, and a signalled engine finishes its shutdown.
HostFairSpec ==
    /\ HostSpec
    /\ WF_vars(Run_Body(RunThread))
    /\ \A a \in 1..MaxApps : WF_vars(AppTerminate(a))

\* The logging bridge on its own: it shares no state with the lifecycle
\* functions, so its behaviours are those it has beside any of theirs.
LogNext ==
    \/ \E t \in Threads : libst_init_logging(t)
    \/ \E f \in Callbacks \cup {NullCallback} : RegisterCallback(f)
    \/ \E t \in Threads, level \in LogLevels, msg \in Messages : Log_Event(t, level, msg)
    \/ \E t \in Threads : Log_Handler(t)
    \/ \E t \in Threads : Invoke_Test(t)
    \/ \E t \in Threads, f \in Callbacks \cup {NullCallback} : Invoke_Call(t, f)
    \/ \E t \in Threads : Log_Return(t)

LogSpec == Init /\ [][LogNext]_vars

\* ------------------------------------------------------------------ claims
\* No call of libst_run_syncthing is between its admission and its return.
LifecycleIdle == \A u \in Threads : pc[u] \notin RunPcs

\* The first step of a call of libst_run_syncthing by thread t.
Run_Invoked(t) == Run_AlreadyRunning(t) \/ Run_Admit(t)

\* C1: at most one engine instance is live at any time: there is never a
\* state in which two instances have been constructed and neither has
\* terminated.
C1_AtMostOneLiveInstance == Cardinality(LiveApps) <= 1

\* C2: a libst_run_syncthing invoked while the lifecycle state is not Idle
\* (another call is Starting, Running or Stopping) returns 0 and changes
\* neither the locations, the environment, the filesystem nor the handle.
C2_StartRejectedUnlessIdle ==
    [][\A t \in Threads :
          (Run_Invoked(t) /\ ~LifecycleIdle) =>
              /\ result' = Result(t, "run", RcAlreadyRunning, "")
              /\ pc'[t] = "idle"
              /\ UNCHANGED <<theApp, apps, env, baseDirs, dirs, dbs>>]_vars

\* A bootstrap stage of thread t's call fails: the call returns from there.
FailsAt(t, stages) == pc[t] \in stages /\ pc'[t] = "idle"

\* The instance of the blocked call is running its shutdown after
\* libst_stop_syncthing has signalled it with the success status.
C3_StopDelivered ==
    /\ pc[RunThread] \in {"waitcall", "waiting"}
    /\ mine[RunThread] # NoApp
    /\ apps[mine[RunThread]].status = "stopping"
    /\ apps[mine[RunThread]].exitStatus = ExitSuccess

\* The call of libst_run_syncthing has returned 0 and left theApp nil.
C3_ReturnedAfterStop ==
    /\ result = Result(RunThread, "run", ExitSuccess, "")
    /\ pc[RunThread] = "idle"
    /\ theApp = NoApp

\* C3: once libst_run_syncthing has constructed and started its instance and
\* libst_stop_syncthing has signalled it with the success status from another
\* thread, the blocked call eventually returns (the engine terminating once
\* signalled); it returns 0, and theApp is nil when it has returned.
C3_StopEndsStart == C3_StopDelivered ~> C3_ReturnedAfterStop

\* C4: libst_stop_syncthing never changes theApp; called while theApp is nil
\* it returns 0, signals no instance and leaves the locations, the
\* environment and the filesystem as they are.
C4_StopKeepsHandle ==
    [][\A t \in Threads :
          libst_stop_syncthing(t) =>
              /\ theApp' = theApp
              /\ (pc[t] = "idle" /\ theApp = NoApp) =>
                    /\ result' = Result(t, "stop", 0, "")
                    /\ pc'[t] = "idle"
                    /\ UNCHANGED <<apps, baseDirs, env, dirs, dbs, myID>>]_vars

C4_StopWhileIdleReturned ==
    /\ result = Result(CHOOSE t \in ControlThreads : TRUE, "stop", 0, "")
    /\ runs = 0
    /\ theApp = NoApp

\* C5: a bootstrap failure returns the code of the stage that failed: 3 for
\* the paths, 4 for a directory, 1 for the certificate, 2 for the
\* configuration, 4 for the storage.
C5_FailureCodes ==
    [][\A t \in Threads :
          /\ FailsAt(t, {"configdir", "datadir"}) => result' = Result(t, "run", 3, "")
          /\ FailsAt(t, {"ensurecfg", "ensuredata"}) => result' = Result(t, "run", 4, "")
          /\ FailsAt(t, {"cert"}) => result' = Result(t, "run", 1, "")
          /\ FailsAt(t, {"config"}) => result' = Result(t, "run", 2, "")
          /\ FailsAt(t, {"db"}) => result' = Result(t, "run", 4, "")]_vars

C5_ConfigFailureReturned ==
    /\ result = Result(RunThread, "run", 2, "")
    /\ pc[RunThread] = "idle"

\* C6: when a bootstrap failure returns, no instance was constructed by the
\* call, the handle is absent and no call is in progress, so that the next
\* libst_run_syncthing is admitted; this after every failed attempt.
C6_FailureLeavesIdle ==
    [][\A t \in Threads :
          FailsAt(t, BootstrapPcs) =>
              /\ mine[t] = NoApp
              /\ apps' = apps
              /\ theApp' = NoApp
              /\ LifecycleIdle'
              /\ ~AlreadyRunning']_vars

C6_SecondAttemptFailed ==
    /\ result = Result(RunThread, "run", RcConfigError, "")
    /\ runs = 2
    /\ theApp = NoApp
    /\ \A a \in 1..MaxApps : apps[a].status = "free"

\* C7: after a successful bootstrap libst_run_syncthing returns the exit
\* status with which its own instance terminated; a failed start of the
\* engine gives a non-zero code.
C7_ReturnsExitStatus ==
    [][\A t \in Threads :
          Run_Clear(t) =>
              /\ mine[t] # NoApp
              /\ apps[mine[t]].status = "stopped"
              /\ result' = Result(t, "run", apps[mine[t]].exitStatus, "")
              /\ StartFailed(apps[mine[t]]) => result'.value # 0]_vars

C7_StartFailureCode ==
    /\ pc[RunThread] = "clear"
    /\ StartFailed(apps[mine[RunThread]])
    /\ returnCode[RunThread] = ExitError

\* The positions of a call whose certificate was loaded or generated.
CertLoadedPcs == {"config", "db", "new"} \cup HandlePcs

\* C8: libst_own_device_id gives the empty identity before any certificate was
\* loaded, and a non-empty identity once the certificate stage of a call of
\* libst_run_syncthing has succeeded.
C8_DeviceIDFollowsCertificate ==
    /\ runs = 0 => OwnDeviceID = ""
    /\ (\E t \in Threads : pc[t] \in CertLoadedPcs) => OwnDeviceID # ""

\* C9: while an instance is running and theApp is set, no step changes a base
\* directory of the locations.
C9_LocationsFrozenWhileRunning ==
    [][(theApp # NoApp /\ apps[theApp].status = "running") =>
          baseDirs' = baseDirs]_vars

\* C10: when libst_run_syncthing returns 3 from its path handling, the
\* locations are what they were when the call was made.
C10_PathFailureKeepsLocations ==
    [][\A t \in Threads :
          FailsAt(t, {"configdir", "datadir"}) => baseDirs' = entryDirs[t]]_vars

\* C11: a delivery of a log event to the handler, during which the registered
\* callback is not reassigned, calls the callback exactly once, with the
\* event's level and the byte length of the message, if a callback is
\* registered and the message is not empty, and calls nothing otherwise; this
\* for each of the deliveries running in several threads, and without a crash.
C11_OneCallPerEvent ==
    /\ \A t \in Threads :
          (logPc[t] = "done" /\ logStable[t]) =>
              invoked[t] = IF callback # NullCallback /\ logEvent[t].msg # <<>>
                           THEN <<[fn |-> callback, level |-> logEvent[t].level,
                                   size |-> Len(logEvent[t].msg)]>>
                           ELSE <<>>
    /\ crashed => \E t \in Threads : logPc[t] = "call" /\ ~logStable[t]

C11_TwoThreadsDelivered ==
    /\ \A t \in Threads : logPc[t] = "done" /\ logStable[t] /\ Len(invoked[t]) = 1
    /\ \E t \in Threads : invoked[t][1].size = 2 /\ logEvent[t].msg = <<195, 164>>

\* The positions of a call after its path handling.
PathsSetPcs == RunPcs \ {"setenv", "configdir", "datadir"}

\* C12: when libst_run_syncthing, called with ensureConfigDirExists, finds no
\* config directory and MkdirAll succeeds, the directory exists after that
\* step, with mode 0700 if Stat and Chmod work; from then on it stays the config
\* directory of the call, and no later step - a failing certificate,
\* configuration or database stage and the return included - removes a
\* directory or takes mode 0700 from it.
C12_ConfigDirPrepared ==
    [][/\ \A t \in Threads, umask \in Umasks, statOk \in BOOLEAN, chmodOk \in BOOLEAN :
             (/\ Run_EnsureConfigDir(t, TRUE, umask, TRUE, statOk, chmodOk)
              /\ dirs[baseDirs["ConfigBaseDir"]] = NoDir) =>
                 /\ dirs'[baseDirs["ConfigBaseDir"]] # NoDir
                 /\ (statOk /\ chmodOk) =>
                        dirs'[baseDirs["ConfigBaseDir"]] = RequiredMode
       /\ (\E t \in Threads : pc[t] \in PathsSetPcs) => baseDirs' = baseDirs
       /\ \A d \in Dirs :
             /\ dirs[d] # NoDir => dirs'[d] # NoDir
             /\ dirs[d] = RequiredMode => dirs'[d] = RequiredMode]_vars

C12_PreparedThenCertFailed ==
    /\ result = Result(RunThread, "run", RcCertError, "")
    /\ runs = 1
    /\ baseDirs["ConfigBaseDir"] = Abs(RelArg)
    /\ dirs[Abs(RelArg)] = RequiredMode

\* C13: the override step of libst_run_syncthing sets the GUI address override
\* to a non-empty guiAddress and the API key override to a non-empty
\* guiApiKey, and leaves the override of an empty argument as it is.
C13_GuiOverridesSet ==
    [][\A t \in Threads, guiAddress \in GuiAddressArgs, guiApiKey \in GuiApiKeyArgs :
          Run_Setenv(t, guiAddress, guiApiKey) =>
              /\ env'["STGUIADDRESS"] =
                     IF guiAddress # "" THEN guiAddress ELSE env["STGUIADDRESS"]
              /\ env'["STGUIAPIKEY"] =
                     IF guiApiKey # "" THEN guiApiKey ELSE env["STGUIAPIKEY"]]_vars

\* The statements of libst_run_syncthing in program order.
StageOrder == <<"setenv", "configdir", "datadir", "ensurecfg", "ensuredata",
                "cert", "config", "db", "new", "start">>

NextStage(stage) ==
    LET i == CHOOSE j \in 1..(Len(StageOrder) - 1) : StageOrder[j] = stage
    IN  StageOrder[i + 1]

\* A step of thread t's call in which the stage it is at fails.
StageFails(t) ==
    \/ \E d \in DirArgs \ {EmptyStr}, absOk \in BOOLEAN, setOk \in BOOLEAN :
          /\ (~IsAbs(d) /\ ~absOk) \/ ~setOk
          /\ Run_ConfigDir(t, d, absOk, setOk) \/ Run_DataDir(t, d, absOk, setOk)
    \/ \E umask \in Umasks, statOk \in BOOLEAN, chmodOk \in BOOLEAN :
          \/ Run_EnsureConfigDir(t, TRUE, umask, FALSE, statOk, chmodOk)
          \/ dataDir[t] # EmptyStr /\ Run_EnsureDataDir(t, TRUE, umask, FALSE, statOk, chmodOk)
    \/ Run_Cert(t, FALSE)
    \/ Run_Config(t, FALSE)
    \/ Run_OpenDB(t, FALSE)

\* C14: the stages of an admitted libst_run_syncthing run in program order:
\* paths, directories, certificate, configuration, database, construction;
\* the step in which a stage fails ends the call and changes nothing, and the
\* locations, the directories, the database and the instances change only in
\* the step of their own stage - so nothing of a later stage happens after a
\* failure.
C14_StagesInOrder ==
    [][/\ \A t \in Threads :
             /\ (pc[t] \in BootstrapPcs /\ pc'[t] # pc[t]) =>
                    pc'[t] \in {NextStage(pc[t]), "idle"}
             /\ StageFails(t) =>
                    /\ pc'[t] = "idle"
                    /\ result'.op = "run" /\ result'.value # 0
                    /\ UNCHANGED <<theApp, apps, env, baseDirs, dirs, dbs, myID>>
       /\ baseDirs' # baseDirs =>
             \E t \in Threads : pc[t] \in {"configdir", "datadir"} /\ pc'[t] # pc[t]
       /\ dirs' # dirs =>
             \E t \in Threads : pc[t] \in {"ensurecfg", "ensuredata"} /\ pc'[t] # pc[t]
       /\ ~(dbs' \subseteq dbs) => \E t \in Threads : pc[t] = "db" /\ pc'[t] = "new"
       /\ (\E a \in 1..MaxApps : apps[a].status = "free" /\ apps'[a].status # "free") =>
             \E t \in Threads : pc[t] = "new" /\ pc'[t] = "start" /\ theApp' # NoApp
       /\ (theApp = NoApp /\ theApp' # NoApp) =>
             \E t \in Threads : pc[t] = "new" /\ pc'[t] = "start"]_vars

C14_DirFailureOpenedNothing ==
    /\ result = Result(RunThread, "run", RcDirError, "")
    /\ runs = 1
    /\ dirs[Abs(RelArg)] = NoDir
    /\ baseDirs["ConfigBaseDir"] = Abs(RelArg)
    /\ dbs = {}
    /\ theApp = NoApp

\* A call of libst_run_syncthing is before the return of theApp.Start().
Starting == \E u \in Threads : pc[u] \in BootstrapPcs \cup {"start"}

\* C15: a libst_stop_syncthing that signals while a call of
\* libst_run_syncthing is still before the start of its instance returns 0 and
\* signals no instance, a constructed but not yet started one included.
C15_StopWhileStartingIsNoOp ==
    [][\A t \in Threads, r \in 1..MaxApps :
          (Stop_Call(t, r) /\ Starting) =>
              /\ result' = Result(t, "stop", 0, "")
              /\ \A a \in 1..MaxApps :
                    apps'[a].status \in {"signalled", "stopping"} =>
                        apps'[a].status = apps[a].status]_vars

\* C16: theApp is set to nil only by the thread whose call stored that
\* instance, and only when the instance has stopped; and no call of
\* libst_run_syncthing is admitted while an instance is live or a stopped one
\* is not yet cleared by its call.
C16_ClearedByOwnerAfterStop ==
    [][/\ (theApp # NoApp /\ theApp' = NoApp) =>
             \E t \in Threads :
                /\ pc[t] = "clear" /\ pc'[t] = "idle"
                /\ mine[t] = theApp
                /\ apps[theApp].status = "stopped"
       /\ \A t \in Threads :
             Run_Admit(t) =>
                /\ LiveApps = {}
                /\ \A u \in Threads : pc[u] \notin HandlePcs]_vars

\* The permission bits Stat reports for dir once MkdirAll has succeeded.
ModeAfterMkdir(dir, umask) ==
    IF dirs[dir] = NoDir THEN AndNot(RequiredMode, umask) ELSE PermBits(dirs[dir])

\* C17: ensureDir returns an error exactly when MkdirAll fails; a failing Stat
\* and a failing Chmod are not errors, so the directory stages of
\* libst_run_syncthing then do not return 4 but go on, the second to the
\* certificate stage; and Chmod is called exactly when Stat succeeded and
\* the permission bits differ from the required mode.
C17_OnlyMkdirFailureIsFatal ==
    [][\A t \in Threads, umask \in Umasks,
          mkOk \in BOOLEAN, statOk \in BOOLEAN, chmodOk \in BOOLEAN :
          /\ \A role \in {"ConfigBaseDir", "DataBaseDir"} :
                pc[t] \in {"ensurecfg", "ensuredata"} =>
                   LET dir == baseDirs[role]
                       r == ensureDir(dirs, dir, RequiredMode, umask, mkOk, statOk, chmodOk)
                   IN  /\ r.err <=> ~mkOk
                       /\ r.chmod <=>
                             (mkOk /\ statOk /\ ModeAfterMkdir(dir, umask) # RequiredMode)
          /\ Run_EnsureConfigDir(t, TRUE, umask, mkOk, statOk, chmodOk) =>
                IF mkOk THEN pc'[t] = "ensuredata"
                ELSE pc'[t] = "idle" /\ result' = Result(t, "run", RcDirError, "")
          /\ (dataDir[t] # EmptyStr
               /\ Run_EnsureDataDir(t, TRUE, umask, mkOk, statOk, chmodOk)) =>
                IF mkOk THEN pc'[t] = "cert"
                ELSE pc'[t] = "idle" /\ result' = Result(t, "run", RcDirError, "")]_vars

C17_WentOnWithoutRequiredMode ==
    /\ pc[RunThread] = "cert"
    /\ runs = 1
    /\ baseDirs["ConfigBaseDir"] = Abs(RelArg)
    /\ dirs[Abs(RelArg)] # NoDir
    /\ dirs[Abs(RelArg)] # RequiredMode

\* C18: libst_reset_database removes the database only while the state is
\* Idle: never while theApp is set, an instance running on that database.
C18_ResetOnlyWhileIdle ==
    [][\A t \in Threads :
          (libst_reset_database(t) /\ dbs' # dbs) => theApp = NoApp]_vars

\* C19: when libst_stop_syncthing, having found theApp set, calls Stop, theApp
\* is still set and it is that instance the call signals: the clearing of
\* theApp by libst_run_syncthing does not come between the test and the use,
\* and no call through a nil pointer happens.
C19_StopUsesPresentHandle ==
    [][\A t \in Threads, r \in 0..MaxApps :
          Stop_Call(t, r) =>
              /\ theApp # NoApp
              /\ r = theApp
              /\ ~crashed']_vars

\* The directory dir is there after the step, with the required mode if Stat
\* and Chmod work.
PreparedAfter(dir, statOk, chmodOk) ==
    /\ dirs'[dir] # NoDir
    /\ (statOk /\ chmodOk) => dirs'[dir] = RequiredMode

\* C20: libst_run_syncthing prepares the data directory exactly when
\* ensureDataDirExists is set and dataDir is not empty - with an empty dataDir
\* no directory is created or re-moded - and prepares the config directory
\* whenever ensureConfigDirExists is set, with or without a configDir.
C20_DataDirNeedsOverride ==
    [][\A t \in Threads, e \in BOOLEAN, umask \in Umasks,
          mkOk \in BOOLEAN, statOk \in BOOLEAN, chmodOk \in BOOLEAN :
          /\ Run_EnsureDataDir(t, e, umask, mkOk, statOk, chmodOk) =>
                IF e /\ dataDir[t] # EmptyStr
                THEN mkOk => PreparedAfter(baseDirs["DataBaseDir"], statOk, chmodOk)
                ELSE dirs' = dirs /\ pc'[t] = "cert"
          /\ Run_EnsureConfigDir(t, e, umask, mkOk, statOk, chmodOk) =>
                IF e
                THEN mkOk => PreparedAfter(baseDirs["ConfigBaseDir"], statOk, chmodOk)
                ELSE dirs' = dirs /\ pc'[t] = "ensuredata"]_vars

C20_BothDirsPrepared ==
    /\ pc[RunThread] = "cert"
    /\ runs = 1
    /\ baseDirs["ConfigBaseDir"] = DefaultDir
    /\ baseDirs["DataBaseDir"] = Abs(RelArg)
    /\ dirs[DefaultDir] = RequiredMode
    /\ dirs[Abs(RelArg)] = RequiredMode

====
